---- MODULE Spec2Model ----
(***************************************************************************)
(* Smart Campus Assistant, frontend slice: the browser storage keys        *)
(* (token, student, admin, sca-last-user, sca-ui-preferences), the zustand *)
(* app store with its persisted upload queue, the upload page's merge of   *)
(* local and server documents, and the admin views' guard.                 *)
(***************************************************************************)
EXTENDS Integers, Sequences, FiniteSets, TLC

VARIABLES
    token,        \* localStorage 'token'
    student,      \* localStorage 'student' (JSON blob)
    admin,        \* localStorage 'admin' (JSON blob)
    lastUser,     \* localStorage 'sca-last-user'
    persisted,    \* filesQueue inside the 'sca-ui-preferences' blob
    filesQueue,   \* useAppStore state.filesQueue (in memory)
    user,         \* useAuth().user as seen by UploadPage
    serverDocs,   \* UploadPage state serverDocs
    docsOwner,    \* history: the user under whom the fetch that filled serverDocs was issued
    inflight,     \* fetchDocuments calls awaiting their response: the user each was issued under
    view,         \* the mounted page
    usersFetch,   \* GET /admin/users requests awaiting their response (the token each sent)
    logoutTimer,  \* forced-logout timers of fetchUsers that are pending
    uploads,      \* the uploads the upload hook is driving: name, outcome, phase
    backend,      \* history: the title lists the backend has held for the user, the last is current
    page,         \* AdminDashboard component state: users, error, addError, newUser, showAddForm, addLoading
    calls,        \* add-user, delete-user and ingest-file requests awaiting their outcome
    uploadResult, \* how the uploadFile promise that settled last settled
    loadedIdentity, \* history: the identity blob in storage at the last application load
    loginForm,    \* Login / AdminLogin component state: error, loading
    appState,     \* useAppStore state: profile, notificationPrefs, chatHistory, quizQuestions
    prefsBlob,    \* profile and notificationPrefs inside the 'sca-ui-preferences' blob
    analytics,    \* AnalyticsPage: search params, options, useAuth().token, analyticsUrl
    fetchLog,     \* history: the fetchUsers calls awaited by handlers, in the order issued
    lastOp        \* history: the handler that ran last

vars == <<token, student, admin, lastUser, persisted, filesQueue, user,
          serverDocs, docsOwner, inflight, view, usersFetch, logoutTimer,
          uploads, backend, page, calls, uploadResult, loadedIdentity, loginForm,
          appState, prefsBlob, analytics, fetchLog, lastOp>>

storageVars == <<token, student, admin, lastUser, persisted>>
sessionVars == <<token, student, admin>>
uploadVars  == <<user, serverDocs, docsOwner, inflight>>
adminVars   == <<usersFetch, logoutTimer>>
hookVars    == <<uploads, backend>>
pageVars    == <<page, calls, uploadResult>>
prefVars    == <<appState, prefsBlob>>

-----------------------------------------------------------------------------
(* Bounds *)

MaxId == 2          \* local queue item ids are 1..MaxId
MaxDocs == 2        \* a server document list holds at most MaxDocs documents
MaxInflight == 2    \* fetchDocuments calls in flight at once
MaxTimers == 2      \* forced-logout timers pending at once
MaxDetail == 2      \* a validation error lists at most MaxDetail entries
MaxChat == 2        \* chatHistory holds at most MaxChat messages

-----------------------------------------------------------------------------
(* Values *)

\* localStorage.getItem of a missing key
Null == <<>>
\* the empty string ''
EmptyStr == <<"">>
\* JS falsiness of a getItem result: null or ''
Falsy(v) == v = Null \/ v = EmptyStr

Students == {"student_a", "student_b"}
\* JSON.stringify(userObj) of Login.handleSubmit
StudentBlob(u) == <<"is_admin:false", u>>
\* JSON.stringify({... is_admin: true}) of AdminLogin.handleSubmit
AdminBlob == <<"is_admin:true", "ADMIN">>
\* response.access_token of a successful login of `who`
AccessToken(who) == <<"jwt", who>>

\* the history of the fetchUsers calls of the mounted dashboard's handlers:
\* `order` lists those awaiting their response, oldest first; `last` is the
\* handler whose call was issued last and `newest` the list answered to that
\* call, once it has been answered ok
FetchLogInit == [order |-> <<>>, last |-> "", newest |-> Null]
\* useState('') and useState(false) of Login and of AdminLogin
FormInit == [error |-> "", loading |-> FALSE]
\* the add-user form's values; the roll number stands for all of its fields
DefaultNewUser == [roll_no |-> ""]
\* the useState initial values of AdminDashboard
PageInit ==
    [users |-> <<>>, error |-> <<>>, addError |-> <<>>, newUser |-> DefaultNewUser,
     showAddForm |-> FALSE, addLoading |-> FALSE]

Ids == 1..MaxId
Names == {"x", "y"}
Statuses == {"pending", "uploading", "complete", "error"}
\* UploadQueueItem; sizeLabel and progress take part in no decision of the code
Item(i, n, s) == [id |-> i, name |-> n, status |-> s]

\* sequences of length at most n over S
SeqsUpTo(S, n) == UNION {[1..k -> S] : k \in 0..n}
ItemIds(q) == {q[i].id : i \in DOMAIN q}
ItemNames(q) == {q[i].name : i \in DOMAIN q}

-----------------------------------------------------------------------------
(* useAppStore: the queue operations *)

\* Map.prototype.set: an existing key keeps its position, a new key goes last
MapSet(m, item) ==
    IF \E i \in DOMAIN m : m[i].id = item.id
    THEN [i \in DOMAIN m |-> IF m[i].id = item.id THEN item ELSE m[i]]
    ELSE Append(m, item)

RECURSIVE MapSetAll(_, _)
MapSetAll(m, items) ==
    IF items = <<>> THEN m ELSE MapSetAll(MapSet(m, Head(items)), Tail(items))

upsertAppends(queue, items) == queue \o items
upsertFileItems(queue, items) == MapSetAll(MapSetAll(<<>>, queue), items)

removeFileItem(queue, id) == SelectSeq(queue, LAMBDA item : item.id # id)

clearDropsErrors(queue) ==
    SelectSeq(queue, LAMBDA item : item.status \notin {"complete", "error"})
clearCompletedFiles(queue) == SelectSeq(queue, LAMBDA item : item.status # "complete")

\* a string as its tokens, " " a run of white space; String.prototype.trim
RECURSIVE TrimLeft(_)
TrimLeft(str) == IF str # <<>> /\ Head(str) = " " THEN TrimLeft(Tail(str)) ELSE str
RECURSIVE TrimRight(_)
TrimRight(str) ==
    IF str # <<>> /\ str[Len(str)] = " "
    THEN TrimRight(SubSeq(str, 1, Len(str) - 1))
    ELSE str
trim(str) == LET t == TrimRight(TrimLeft(str)) IN IF t = <<>> THEN EmptyStr ELSE t

defaultProfile == [name |-> <<"Devon Bailey">>, role |-> <<"AI Program Coordinator">>]
defaultNotificationPrefs ==
    [summaryEmail |-> TRUE, weeklyDigest |-> FALSE, ingestionAlerts |-> TRUE]
\* the store's fields next to the queue, as create() sets them
AppInit ==
    [profile |-> defaultProfile, notificationPrefs |-> defaultNotificationPrefs,
     chatHistory |-> <<>>, quizQuestions |-> <<>>]

\* updates.name?.trim() || state.profile.name; Null is an absent field
updatedField(update, current) ==
    IF update = Null \/ Falsy(trim(update)) THEN current ELSE trim(update)
updateProfile(app, updates) ==
    [app EXCEPT !.profile = [name |-> updatedField(updates.name, app.profile.name),
                             role |-> updatedField(updates.role, app.profile.role)]]
\* { ...state.notificationPrefs, [key]: value }
updateNotificationPref(app, key, value) ==
    [app EXCEPT !.notificationPrefs =
        [k \in DOMAIN app.notificationPrefs \cup {key} |->
            IF k = key THEN value ELSE app.notificationPrefs[k]]]
addChatMessages(app, messages) == [app EXCEPT !.chatHistory = @ \o messages]
setQuizQuestions(app, questions) == [app EXCEPT !.quizQuestions = questions]

-----------------------------------------------------------------------------
(* useAppStore: persist options *)

\* partialize: profile and notificationPrefs of the blob (its filesQueue is
\* `persisted`); the blob value is Null while the key is absent
partialize(app) ==
    <<[profile |-> app.profile, notificationPrefs |-> app.notificationPrefs]>>

\* the store after persist's merge of the blob into the created state
hydrated(b) ==
    IF b = Null
    THEN AppInit
    ELSE [k \in DOMAIN AppInit |-> IF k \in DOMAIN b[1] THEN b[1][k] ELSE AppInit[k]]

\* localStorage.getItem('student') || localStorage.getItem('admin')
currentUser(s, a) == IF ~Falsy(s) THEN s ELSE a

\* the queue left in the store by onRehydrateStorage
rehydrateNeverPurges(snapshot, cur, stored) == snapshot
rehydratedQueue(snapshot, cur, stored) == IF cur # stored THEN <<>> ELSE snapshot

\* 'sca-last-user' after onRehydrateStorage: currentUser || ''
rehydratedLastUser(cur, stored) ==
    IF cur # stored THEN (IF Falsy(cur) THEN EmptyStr ELSE cur) ELSE stored

\* A page load with `s` and `a` under the keys student and admin: the store is
\* created from the persisted blob and onRehydrateStorage runs; component state
\* and timers of the previous page are gone.
PageLoad(s, a) ==
    /\ filesQueue' = rehydratedQueue(persisted, currentUser(s, a), lastUser)
    /\ lastUser' = rehydratedLastUser(currentUser(s, a), lastUser)
    /\ persisted' = persisted
    /\ user' = currentUser(s, a)
    /\ serverDocs' = <<>>
    /\ docsOwner' = Null
    /\ inflight' = <<>>
    /\ logoutTimer' = 0
    /\ calls' = {}
    /\ uploadResult' = Null
    /\ loadedIdentity' = currentUser(s, a)
    /\ loginForm' = FormInit
    /\ appState' = hydrated(prefsBlob)
    /\ fetchLog' = FetchLogInit
    /\ prefsBlob' = prefsBlob

\* every set() of the store is followed by persist's setItem of the partialized state
StoreSet(queue) ==
    /\ filesQueue' = queue
    /\ persisted' = queue
    /\ appState' = appState
    /\ prefsBlob' = partialize(appState)

\* a set() that replaces fields other than the queue: the partialized state
\* written holds the queue as the store has it
PrefsSet(app) ==
    /\ appState' = app
    /\ prefsBlob' = partialize(app)
    /\ filesQueue' = filesQueue
    /\ persisted' = filesQueue

SetFilesQueue(items) ==
    /\ StoreSet(items)
    /\ lastOp' = <<"setFilesQueue">>
    /\ UNCHANGED hookVars
    /\ UNCHANGED <<pageVars, loadedIdentity, loginForm>>
    /\ UNCHANGED <<sessionVars, lastUser, uploadVars, view, adminVars>>
    /\ UNCHANGED analytics
    /\ UNCHANGED fetchLog

UpsertFileItems(items) ==
    /\ StoreSet(upsertFileItems(filesQueue, items))
    /\ lastOp' = <<"upsertFileItems">>
    /\ UNCHANGED hookVars
    /\ UNCHANGED <<pageVars, loadedIdentity, loginForm>>
    /\ UNCHANGED <<sessionVars, lastUser, uploadVars, view, adminVars>>
    /\ UNCHANGED analytics
    /\ UNCHANGED fetchLog

RemoveFileItem(id) ==
    /\ StoreSet(removeFileItem(filesQueue, id))
    /\ lastOp' = <<"removeFileItem", id>>
    /\ UNCHANGED hookVars
    /\ UNCHANGED <<pageVars, loadedIdentity, loginForm>>
    /\ UNCHANGED <<sessionVars, lastUser, uploadVars, view, adminVars>>
    /\ UNCHANGED analytics
    /\ UNCHANGED fetchLog

ClearCompletedFiles ==
    /\ StoreSet(clearCompletedFiles(filesQueue))
    /\ lastOp' = <<"clearCompletedFiles">>
    /\ UNCHANGED hookVars
    /\ UNCHANGED <<pageVars, loadedIdentity, loginForm>>
    /\ UNCHANGED <<sessionVars, lastUser, uploadVars, view, adminVars>>
    /\ UNCHANGED analytics
    /\ UNCHANGED fetchLog

UpdateProfile(updates) ==
    /\ PrefsSet(updateProfile(appState, updates))
    /\ lastOp' = <<"updateProfile">>
    /\ UNCHANGED hookVars
    /\ UNCHANGED <<pageVars, loadedIdentity, loginForm>>
    /\ UNCHANGED <<sessionVars, lastUser, uploadVars, view, adminVars>>
    /\ UNCHANGED analytics
    /\ UNCHANGED fetchLog

UpdateNotificationPref(key, value) ==
    /\ PrefsSet(updateNotificationPref(appState, key, value))
    /\ lastOp' = <<"updateNotificationPref">>
    /\ UNCHANGED hookVars
    /\ UNCHANGED <<pageVars, loadedIdentity, loginForm>>
    /\ UNCHANGED <<sessionVars, lastUser, uploadVars, view, adminVars>>
    /\ UNCHANGED analytics
    /\ UNCHANGED fetchLog

AddChatMessages(messages) ==
    /\ Len(appState.chatHistory) + Len(messages) <= MaxChat
    /\ PrefsSet(addChatMessages(appState, messages))
    /\ lastOp' = <<"addChatMessages">>
    /\ UNCHANGED hookVars
    /\ UNCHANGED <<pageVars, loadedIdentity, loginForm>>
    /\ UNCHANGED <<sessionVars, lastUser, uploadVars, view, adminVars>>
    /\ UNCHANGED analytics
    /\ UNCHANGED fetchLog

SetQuizQuestions(questions) ==
    /\ PrefsSet(setQuizQuestions(appState, questions))
    /\ lastOp' = <<"setQuizQuestions">>
    /\ UNCHANGED hookVars
    /\ UNCHANGED <<pageVars, loadedIdentity, loginForm>>
    /\ UNCHANGED <<sessionVars, lastUser, uploadVars, view, adminVars>>
    /\ UNCHANGED analytics
    /\ UNCHANGED fetchLog

-----------------------------------------------------------------------------
(* Admin views: the admin-access effect and fetchUsers *)

AdminViews == {"AdminDashboard", "AdminPerformance"}
LoginViews == {"Login", "AdminLogin"}
Views == AdminViews \cup LoginViews \cup {"Dashboard", "Upload"}

\* JSON.parse(adminData): only a blob written by a login form parses to an object
Parses(blob) == Len(blob) = 2
IsAdminFlag(blob) == blob[1] = "is_admin:true"

\* the admin-access effect: the path it navigates to, or "stay"
adminGuard(adminData) ==
    IF Falsy(adminData) THEN "/dashboard"
    ELSE IF ~Parses(adminData) THEN "/dashboard"
    ELSE IF ~IsAdminFlag(adminData) THEN "/dashboard"
    ELSE "stay"

\* the view a path of navigate() or window.location.href shows
ViewOf(path) ==
    CASE path = "/dashboard" -> "Dashboard"
      [] path = "/admin" -> "AdminDashboard"
      [] path = "/admin-login" -> "AdminLogin"
      [] path = "/login" -> "Login"

\* the view left mounted once the effects of mounting `v` have run
MountedView(v, adminData) ==
    IF v \in AdminViews /\ adminGuard(adminData) # "stay"
    THEN ViewOf(adminGuard(adminData))
    ELSE v

\* AdminDashboard's mount effect calls fetchUsers, which sends a request when a
\* token is stored
FetchOnMount(v, tok, fetches) ==
    IF v = "AdminDashboard" /\ ~Falsy(tok)
    THEN fetches \cup {tok}
    ELSE fetches

\* fetchUsers without a token: setError and return
NoTokenMsg == <<"No authentication token found. Please login again.">>
\* AdminDashboard's state once the effects of mounting `v` have run
MountedPage(v, tok) ==
    IF v = "AdminDashboard" /\ Falsy(tok)
    THEN [PageInit EXCEPT !.error = NoTokenMsg]
    ELSE PageInit

\* the user reloads the page (or opens the same URL in a new tab)
Reload ==
    /\ PageLoad(student, admin)
    /\ view' = MountedView(view, admin)
    /\ usersFetch' = FetchOnMount(view, token, {})
    /\ page' = MountedPage(view, token)
    /\ lastOp' = <<"load">>
    /\ UNCHANGED hookVars
    /\ UNCHANGED sessionVars
    /\ UNCHANGED analytics

\* a link or the history shows one of the login forms, which mounts with its
\* initial state (a submitted form is followed until its request has settled)
Navigate(v) ==
    /\ v \in LoginViews
    /\ ~loginForm.loading
    /\ view' = v
    /\ loginForm' = FormInit
    /\ lastOp' = <<"navigate">>
    /\ UNCHANGED hookVars
    /\ UNCHANGED <<pageVars, loadedIdentity>>
    /\ UNCHANGED <<storageVars, filesQueue, uploadVars, adminVars>>
    /\ UNCHANGED prefVars
    /\ UNCHANGED analytics
    /\ UNCHANGED fetchLog

\* an admin view is opened: it mounts, the admin-access effect runs and, on
\* AdminDashboard, the mount effect calls fetchUsers
OpenAdminView(v) ==
    /\ v \in AdminViews
    /\ ~loginForm.loading
    /\ view' = MountedView(v, admin)
    /\ usersFetch' = FetchOnMount(v, token, usersFetch)
    /\ page' = MountedPage(v, token)
    /\ loginForm' = FormInit
    /\ fetchLog' = FetchLogInit
    /\ lastOp' = <<"mount", v>>
    /\ UNCHANGED hookVars
    /\ UNCHANGED <<calls, uploadResult, loadedIdentity>>
    /\ UNCHANGED <<storageVars, filesQueue, uploadVars, logoutTimer>>
    /\ UNCHANGED prefVars
    /\ UNCHANGED analytics

\* Response.status and Response.statusText of GET /admin/users; the last is a
\* reason phrase a server or proxy may send with a 401
UsersResponses ==
    {<<200, "OK">>, <<401, "Unauthorized">>, <<401, "Unauthenticated">>,
     <<500, "Internal Server Error">>}

\* `Failed to load users: ${res.status} ${res.statusText}`
usersErrorMessage(resp) == <<"Failed to load users:", ToString(resp[1]), resp[2]>>
\* errorMessage.includes(needle)
Includes(msg, needle) == \E i \in DOMAIN msg : msg[i] = needle
\* fetchUsers' test for scheduling the forced logout
schedulesLogout(resp) ==
    /\ resp[1] \notin 200..299
    /\ \/ Includes(usersErrorMessage(resp), "Could not validate credentials")
       \/ Includes(usersErrorMessage(resp), "Unauthenticated")

\* the rows GET /admin/users answers with
UserLists == {<<>>, <<"u1">>}
\* fetchUsers after its await: setUsers and setError('') for an ok response,
\* setError(message) otherwise
usersAnswerPage(pg, resp, data) ==
    IF resp[1] \in 200..299
    THEN [pg EXCEPT !.users = data, !.error = <<>>]
    ELSE [pg EXCEPT !.error = usersErrorMessage(resp)]

\* the response of a fetchUsers request arrives
FetchUsersResponse(t, resp) ==
    /\ t \in usersFetch
    /\ usersFetch' = usersFetch \ {t}
    /\ IF schedulesLogout(resp)
       THEN logoutTimer < MaxTimers /\ logoutTimer' = logoutTimer + 1
       ELSE logoutTimer' = logoutTimer
    /\ \E data \in UserLists : page' = usersAnswerPage(page, resp, data)
    /\ lastOp' = <<"fetchUsers", ToString(resp[1])>>
    /\ UNCHANGED hookVars
    /\ UNCHANGED <<calls, uploadResult, loadedIdentity, loginForm>>
    /\ UNCHANGED <<storageVars, filesQueue, uploadVars, view>>
    /\ UNCHANGED prefVars
    /\ UNCHANGED analytics
    /\ UNCHANGED fetchLog

\* the setTimeout callback of fetchUsers
ForcedLogout ==
    /\ logoutTimer > 0
    /\ logoutTimer' = logoutTimer - 1
    /\ token' = Null
    /\ admin' = Null
    /\ view' = ViewOf("/admin-login")
    /\ lastOp' = <<"forcedLogout">>
    /\ UNCHANGED hookVars
    /\ UNCHANGED <<pageVars, loadedIdentity, loginForm>>
    /\ UNCHANGED <<student, lastUser, persisted, filesQueue, uploadVars, usersFetch>>
    /\ UNCHANGED prefVars
    /\ UNCHANGED analytics
    /\ UNCHANGED fetchLog

-----------------------------------------------------------------------------
(* AdminDashboard: the add-user form and the delete button *)

\* a message is the sequence of its pieces; Array.prototype.join puts the
\* separator between the pieces
RECURSIVE JoinTokens(_, _)
JoinTokens(parts, sep) ==
    IF parts = <<>> THEN <<>>
    ELSE IF Len(parts) = 1 THEN parts[1]
    ELSE parts[1] \o <<sep>> \o JoinTokens(Tail(parts), sep)

\* `${err.loc.join('.')}: ${err.msg}`
renderDetail(err) ==
    JoinTokens([i \in DOMAIN err.loc |-> <<err.loc[i]>>], ".") \o <<": ", err.msg>>
validationOmitsLoc(detail) ==
    JoinTokens([k \in DOMAIN detail |-> <<detail[k].msg>>], ", ")
\* data.detail.map(...).join(', ')
validationMessage(detail) ==
    JoinTokens([k \in DOMAIN detail |-> renderDetail(detail[k])], ", ")

\* the entries of a FastAPI validation error
DetailEntries ==
    {[loc |-> <<"body", "roll_no">>, msg |-> "field required"],
     [loc |-> <<"body", "password">>, msg |-> "too short"],
     [loc |-> <<"body">>, msg |-> "invalid JSON"]}
DetailArrays == UNION {[1..k -> DetailEntries] : k \in 1..MaxDetail}
\* data.detail: absent, a string, or an array
Details ==
    {<<"none">>, <<"string", "Roll number already registered">>}
        \cup {<<"array", d>> : d \in DetailArrays}
\* the outcomes of POST /admin/users and DELETE /admin/users/:id: a response
\* (json tells whether its body parses), or status 0 for a rejected fetch
Response(st, js, dt) == [status |-> st, json |-> js, detail |-> dt]
OkResponse == Response(200, TRUE, <<"none">>)
FetchRejected == Response(0, FALSE, <<"none">>)
NotJsonResponse == Response(500, FALSE, <<"none">>)
AddResponses ==
    {OkResponse, FetchRejected, NotJsonResponse}
        \cup {Response(st, TRUE, dt) : st \in {400, 422}, dt \in Details}
ResOk(resp) == resp.status \in 200..299

\* String(array) of an array of objects
objectStrings(detail) ==
    JoinTokens([k \in DOMAIN detail |-> <<"[object Object]">>], ",")
\* the message of the error handleAddUser's try block throws
addErrorMessage(resp) ==
    IF resp.status = 0 THEN <<"Failed to fetch">>
    ELSE IF ~resp.json THEN <<"Unexpected token < in JSON at position 0">>
    ELSE IF resp.status = 422 /\ resp.detail[1] = "array"
    THEN validationMessage(resp.detail[2])
    ELSE IF resp.detail[1] = "string" THEN <<resp.detail[2]>>
    ELSE IF resp.detail[1] = "array" THEN objectStrings(resp.detail[2])
    ELSE <<"Failed to add user">>

\* `${token}` in a template literal: null is rendered as the text 'null'
templateText(tok) == IF tok = Null THEN <<"null">> ELSE tok
\* the Authorization header of a request, Null when none is set: handleAddUser
\* and handleDeleteUser always set `Bearer ${token}`; fetchUsers and uploadFile
\* set it when the token is truthy
authorization(a, ph, tok) ==
    IF a \in {"addUser", "deleteUser"} /\ ph = "request"
    THEN <<"Bearer ", templateText(tok)>>
    ELSE IF Falsy(tok) THEN Null ELSE <<"Bearer ", tok>>

\* a request of a handler: the token it read, the header it sent and whether it
\* is the mutation itself or the fetchUsers the handler awaits afterwards
Call(a, ph, tok) ==
    [api |-> a, phase |-> ph, token |-> tok, header |-> authorization(a, ph, tok)]

\* the backend accepts no request that carries no token
Authorized(c, ok) == ok => ~Falsy(c.token)

logIssued(log, cs, api) ==
    IF \E c \in cs : c.api = api /\ c.phase = "refetch"
    THEN [order |-> Append(log.order, api), last |-> api, newest |-> Null]
    ELSE log
logAnswered(log, api, resp, data) ==
    [order |-> SelectSeq(log.order, LAMBDA k : k # api),
     last |-> log.last,
     newest |-> IF log.last = api /\ resp[1] \in 200..299 THEN <<data>> ELSE log.newest]

\* one request of a kind at a time: none of kind `a` is awaiting its outcome
Idle(a) == \A c \in calls : c.api # a

\* `await fetchUsers()` at the end of a successful mutation: fetchUsers reads
\* the token again and sends nothing when there is none
refetchNever(cs, c, tok) == cs \ {c}
refetchWithSentToken(cs, c, tok) == (cs \ {c}) \cup {Call(c.api, "refetch", c.token)}
awaitFetchUsers(cs, c, tok) ==
    IF Falsy(tok) THEN cs \ {c} ELSE (cs \ {c}) \cup {Call(c.api, "refetch", tok)}

\* handleAddUser past `if (!res.ok)`: the form is reset and closed
addSuccessPage(pg, tok) ==
    IF Falsy(tok)
    THEN [pg EXCEPT !.newUser = DefaultNewUser, !.showAddForm = FALSE,
                    !.error = NoTokenMsg, !.addLoading = FALSE]
    ELSE [pg EXCEPT !.newUser = DefaultNewUser, !.showAddForm = FALSE]
addFailureResetsForm(pg, resp) ==
    [pg EXCEPT !.addError = addErrorMessage(resp), !.addLoading = FALSE,
               !.newUser = DefaultNewUser]
\* handleAddUser's catch and finally
addFailurePage(pg, resp) ==
    [pg EXCEPT !.addError = addErrorMessage(resp), !.addLoading = FALSE]

\* the button that shows and hides the form
ToggleAddForm ==
    /\ view = "AdminDashboard"
    /\ page' = [page EXCEPT !.showAddForm = ~page.showAddForm]
    /\ lastOp' = <<"setShowAddForm">>
    /\ UNCHANGED <<storageVars, filesQueue, uploadVars, view, adminVars, hookVars,
                   calls, uploadResult, loadedIdentity, loginForm>>
    /\ UNCHANGED prefVars
    /\ UNCHANGED analytics
    /\ UNCHANGED fetchLog

\* the form's Cancel button
CancelAddForm ==
    /\ view = "AdminDashboard"
    /\ page.showAddForm
    /\ page' = [page EXCEPT !.showAddForm = FALSE, !.addError = <<>>]
    /\ lastOp' = <<"cancel">>
    /\ UNCHANGED <<storageVars, filesQueue, uploadVars, view, adminVars, hookVars,
                   calls, uploadResult, loadedIdentity, loginForm>>
    /\ UNCHANGED prefVars
    /\ UNCHANGED analytics
    /\ UNCHANGED fetchLog

RollNos == {"", "r1"}
\* an input's onChange
EditNewUser(r) ==
    /\ view = "AdminDashboard"
    /\ page.showAddForm
    /\ page.newUser.roll_no # r
    /\ page' = [page EXCEPT !.newUser = [roll_no |-> r]]
    /\ lastOp' = <<"setNewUser">>
    /\ UNCHANGED <<storageVars, filesQueue, uploadVars, view, adminVars, hookVars,
                   calls, uploadResult, loadedIdentity, loginForm>>
    /\ UNCHANGED prefVars
    /\ UNCHANGED analytics
    /\ UNCHANGED fetchLog

\* handleAddUser up to its await: the submit button is disabled while addLoading
HandleAddUser ==
    /\ view = "AdminDashboard"
    /\ page.showAddForm
    /\ ~page.addLoading
    /\ Idle("addUser")
    /\ page' = [page EXCEPT !.addError = <<>>, !.addLoading = TRUE]
    /\ calls' = calls \cup {Call("addUser", "request", token)}
    /\ lastOp' = <<"handleAddUser">>
    /\ UNCHANGED <<storageVars, filesQueue, uploadVars, view, adminVars, hookVars,
                   uploadResult, loadedIdentity, loginForm>>
    /\ UNCHANGED prefVars
    /\ UNCHANGED analytics
    /\ UNCHANGED fetchLog

\* handleAddUser after its await of fetch
AddUserResponse(c, resp) ==
    /\ c \in calls
    /\ c.api = "addUser" /\ c.phase = "request"
    /\ Authorized(c, ResOk(resp))
    /\ IF ResOk(resp)
       THEN /\ page' = addSuccessPage(page, token)
            /\ calls' = awaitFetchUsers(calls, c, token)
            /\ lastOp' = <<"handleAddUser", "ok">>
       ELSE /\ page' = addFailurePage(page, resp)
            /\ calls' = calls \ {c}
            /\ lastOp' = <<"handleAddUser", "failed">>
    /\ fetchLog' = logIssued(fetchLog, calls', c.api)
    /\ UNCHANGED <<storageVars, filesQueue, uploadVars, view, adminVars, hookVars,
                   uploadResult, loadedIdentity, loginForm>>
    /\ UNCHANGED prefVars
    /\ UNCHANGED analytics

\* handleDeleteUser up to its await; `confirmed` is what confirm() returned
HandleDeleteUser(confirmed) ==
    /\ view = "AdminDashboard"
    /\ page.users # <<>>
    /\ IF confirmed
       THEN /\ Idle("deleteUser")
            /\ calls' = calls \cup {Call("deleteUser", "request", token)}
            /\ lastOp' = <<"handleDeleteUser">>
       ELSE /\ calls' = calls
            /\ lastOp' = <<"handleDeleteUser", "declined">>
    /\ UNCHANGED <<storageVars, filesQueue, uploadVars, view, adminVars, hookVars,
                   page, uploadResult, loadedIdentity, loginForm>>
    /\ UNCHANGED prefVars
    /\ UNCHANGED analytics
    /\ UNCHANGED fetchLog

\* handleDeleteUser after its await of fetch; a failure is shown by alert()
DeleteUserResponse(c, resp) ==
    /\ c \in calls
    /\ c.api = "deleteUser" /\ c.phase = "request"
    /\ Authorized(c, ResOk(resp))
    /\ IF ResOk(resp)
       THEN /\ page' = IF Falsy(token) THEN [page EXCEPT !.error = NoTokenMsg] ELSE page
            /\ calls' = awaitFetchUsers(calls, c, token)
            /\ lastOp' = <<"handleDeleteUser", "ok">>
       ELSE /\ page' = page
            /\ calls' = calls \ {c}
            /\ lastOp' = <<"handleDeleteUser", "failed">>
    /\ fetchLog' = logIssued(fetchLog, calls', c.api)
    /\ UNCHANGED <<storageVars, filesQueue, uploadVars, view, adminVars, hookVars,
                   uploadResult, loadedIdentity, loginForm>>
    /\ UNCHANGED prefVars
    /\ UNCHANGED analytics

\* the fetchUsers a handler awaits is answered; handleAddUser's finally runs
RefetchResponse(c, resp) ==
    /\ c \in calls
    /\ c.phase = "refetch"
    /\ calls' = calls \ {c}
    /\ IF schedulesLogout(resp)
       THEN logoutTimer < MaxTimers /\ logoutTimer' = logoutTimer + 1
       ELSE logoutTimer' = logoutTimer
    /\ \E data \in UserLists :
          /\ page' = [usersAnswerPage(page, resp, data) EXCEPT
                         !.addLoading = IF c.api = "addUser" THEN FALSE ELSE @]
          /\ fetchLog' = logAnswered(fetchLog, c.api, resp, data)
    /\ lastOp' = <<"fetchUsers", ToString(resp[1])>>
    /\ UNCHANGED <<storageVars, filesQueue, uploadVars, view, usersFetch, hookVars,
                   uploadResult, loadedIdentity, loginForm>>
    /\ UNCHANGED prefVars
    /\ UNCHANGED analytics

-----------------------------------------------------------------------------
(* Login forms and logout handlers *)

\* err.message of a rejected login request: empty, or the backend's detail
LoginErrors == {"", "Invalid credentials"}
StudentLoginFallback == "Login failed. Please check your credentials or contact your admin."
AdminLoginFallback == "Admin login failed. Please check your credentials."

failedFormKeepsLoading(msg, fallback) ==
    [error |-> IF msg = "" THEN fallback ELSE msg, loading |-> TRUE]
\* the catch and finally blocks of handleSubmit: setError(err.message || fallback),
\* setLoading(false)
failedForm(msg, fallback) ==
    [error |-> IF msg = "" THEN fallback ELSE msg, loading |-> FALSE]

\* handleSubmit of Login and of AdminLogin up to its await: setError(''),
\* setLoading(true), the login request is sent; the submit button is disabled
\* while loading
SubmitLogin ==
    /\ view \in LoginViews
    /\ ~loginForm.loading
    /\ loginForm' = [error |-> "", loading |-> TRUE]
    /\ lastOp' = <<IF view = "Login" THEN "Login.handleSubmit" ELSE "AdminLogin.handleSubmit",
                   "sent">>
    /\ UNCHANGED hookVars
    /\ UNCHANGED <<pageVars, loadedIdentity>>
    /\ UNCHANGED <<storageVars, filesQueue, uploadVars, view, adminVars>>
    /\ UNCHANGED prefVars
    /\ UNCHANGED analytics
    /\ UNCHANGED fetchLog

\* Login.handleSubmit, the request succeeded: window.location.href loads /dashboard
LoginStudent(u) ==
    /\ view = "Login"
    /\ loginForm.loading
    /\ token' = AccessToken(u)
    /\ student' = StudentBlob(u)
    /\ admin' = admin
    /\ PageLoad(student', admin')
    /\ view' = ViewOf("/dashboard")
    /\ usersFetch' = {}
    /\ page' = PageInit
    /\ lastOp' = <<"Login.handleSubmit", "ok">>
    /\ UNCHANGED hookVars
    /\ UNCHANGED analytics

\* Login.handleSubmit, the request failed: setError, setLoading(false)
LoginStudentFailed(msg) ==
    /\ view = "Login"
    /\ loginForm.loading
    /\ loginForm' = failedForm(msg, StudentLoginFallback)
    /\ lastOp' = <<"Login.handleSubmit", "failed">>
    /\ UNCHANGED hookVars
    /\ UNCHANGED <<pageVars, loadedIdentity>>
    /\ UNCHANGED <<storageVars, filesQueue, uploadVars, view, adminVars>>
    /\ UNCHANGED prefVars
    /\ UNCHANGED analytics
    /\ UNCHANGED fetchLog

\* AdminLogin.handleSubmit, the request succeeded: navigate('/admin')
LoginAdmin ==
    /\ view = "AdminLogin"
    /\ loginForm.loading
    /\ loginForm' = FormInit
    /\ token' = AccessToken("ADMIN")
    /\ admin' = AdminBlob
    /\ student' = Null
    /\ view' = MountedView(ViewOf("/admin"), admin')
    /\ usersFetch' = FetchOnMount(ViewOf("/admin"), token', usersFetch)
    /\ page' = MountedPage(ViewOf("/admin"), token')
    /\ fetchLog' = FetchLogInit
    /\ lastOp' = <<"AdminLogin.handleSubmit", "ok">>
    /\ UNCHANGED hookVars
    /\ UNCHANGED <<calls, uploadResult, loadedIdentity>>
    /\ UNCHANGED <<lastUser, persisted, filesQueue, uploadVars, logoutTimer>>
    /\ UNCHANGED prefVars
    /\ UNCHANGED analytics

LoginAdminFailed(msg) ==
    /\ view = "AdminLogin"
    /\ loginForm.loading
    /\ loginForm' = failedForm(msg, AdminLoginFallback)
    /\ lastOp' = <<"AdminLogin.handleSubmit", "failed">>
    /\ UNCHANGED hookVars
    /\ UNCHANGED <<pageVars, loadedIdentity>>
    /\ UNCHANGED <<storageVars, filesQueue, uploadVars, view, adminVars>>
    /\ UNCHANGED prefVars
    /\ UNCHANGED analytics
    /\ UNCHANGED fetchLog

logoutKeepsStudent ==
    /\ view \in AdminViews
    /\ token' = Null
    /\ admin' = Null
    /\ view' = ViewOf("/admin-login")
    /\ lastOp' = <<"handleLogout">>
    /\ UNCHANGED <<student, lastUser, persisted, filesQueue, uploadVars, adminVars,
                   hookVars, pageVars, loadedIdentity, loginForm>>
    /\ UNCHANGED prefVars
    /\ UNCHANGED analytics
    /\ UNCHANGED fetchLog
\* handleLogout of AdminDashboard and of AdminPerformance
AdminLogout ==
    /\ view \in AdminViews
    /\ token' = Null
    /\ admin' = Null
    /\ student' = Null
    /\ view' = ViewOf("/admin-login")
    /\ lastOp' = <<"handleLogout">>
    /\ UNCHANGED hookVars
    /\ UNCHANGED <<pageVars, loadedIdentity, loginForm>>
    /\ UNCHANGED <<lastUser, persisted, filesQueue, uploadVars, adminVars>>
    /\ UNCHANGED prefVars
    /\ UNCHANGED analytics
    /\ UNCHANGED fetchLog

\* SidebarNav's Sign Out button: window.location.href loads /login
SignOut ==
    /\ view = "Dashboard"
    /\ token' = Null
    /\ student' = Null
    /\ admin' = Null
    /\ PageLoad(Null, Null)
    /\ view' = ViewOf("/login")
    /\ usersFetch' = {}
    /\ page' = PageInit
    /\ lastOp' = <<"signOut">>
    /\ UNCHANGED hookVars
    /\ UNCHANGED analytics

\* handleLogout run by an admin view in another tab of the same browser: the
\* keys are shared, the navigation is the other tab's
LogoutInOtherTab ==
    /\ token' = Null
    /\ admin' = Null
    /\ student' = Null
    /\ lastOp' = <<"handleLogout", "other tab">>
    /\ UNCHANGED hookVars
    /\ UNCHANGED <<pageVars, loadedIdentity, loginForm>>
    /\ UNCHANGED <<lastUser, persisted, filesQueue, uploadVars, view, adminVars>>
    /\ UNCHANGED prefVars
    /\ UNCHANGED analytics
    /\ UNCHANGED fetchLog

-----------------------------------------------------------------------------
(* UploadPage *)

\* the titles of a GET /documents answer
DocLists == SeqsUpTo(Names, MaxDocs)
\* refreshDocuments' docs.map: a server document as a queue item
ServerItems(titles) ==
    [k \in DOMAIN titles |-> Item(0 - k, titles[k], "complete")]

\* the user objects AuthContext hands to the page
Users == {StudentBlob(u) : u \in Students}

RemoveAt(q, i) == SubSeq(q, 1, i - 1) \o SubSeq(q, i + 1, Len(q))

mergeKeepsAll(fq, sd) == fq \o sd
mergeServerWins(fq, sd) ==
    SelectSeq(fq, LAMBDA f : ~(\E k \in DOMAIN sd : sd[k].name = f.name)) \o sd
combinedQueue(fq, sd) ==
    fq \o SelectSeq(sd, LAMBDA d : ~(\E i \in DOMAIN fq : fq[i].name = d.name))

hasCompleted(fq, sd) ==
    \E i \in DOMAIN combinedQueue(fq, sd) : combinedQueue(fq, sd)[i].status = "complete"

\* useAuth().user becomes `u` while the page is mounted; the [user] effect
\* resets serverDocs and, for a logged-in user, calls refreshDocuments
AuthUserChanged(u) ==
    /\ u # user
    /\ user' = u
    /\ serverDocs' = <<>>
    /\ docsOwner' = Null
    /\ IF u = Null
       THEN inflight' = inflight
       ELSE Len(inflight) < MaxInflight /\ inflight' = Append(inflight, u)
    /\ lastOp' = <<"userChanged">>
    /\ UNCHANGED hookVars
    /\ UNCHANGED <<pageVars, loadedIdentity, loginForm>>
    /\ UNCHANGED <<storageVars, filesQueue, view, adminVars>>
    /\ UNCHANGED prefVars
    /\ UNCHANGED analytics
    /\ UNCHANGED fetchLog

\* WikipediaImportCard's onImportComplete: refreshDocuments is called
ImportComplete ==
    /\ Len(inflight) < MaxInflight
    /\ inflight' = Append(inflight, user)
    /\ lastOp' = <<"onImportComplete">>
    /\ UNCHANGED hookVars
    /\ UNCHANGED <<pageVars, loadedIdentity, loginForm>>
    /\ UNCHANGED <<storageVars, filesQueue, user, serverDocs, docsOwner, view, adminVars>>
    /\ UNCHANGED prefVars
    /\ UNCHANGED analytics
    /\ UNCHANGED fetchLog

\* refreshDocuments after its await: fetchDocuments resolved with `titles`
RefreshResolved(i, titles) ==
    /\ i \in DOMAIN inflight
    /\ serverDocs' = ServerItems(titles)
    /\ docsOwner' = inflight[i]
    /\ inflight' = RemoveAt(inflight, i)
    /\ lastOp' = <<"setServerDocs">>
    /\ UNCHANGED hookVars
    /\ UNCHANGED <<pageVars, loadedIdentity, loginForm>>
    /\ UNCHANGED <<storageVars, filesQueue, user, view, adminVars>>
    /\ UNCHANGED prefVars
    /\ UNCHANGED analytics
    /\ UNCHANGED fetchLog

\* refreshDocuments after its await: fetchDocuments rejected, console.error
RefreshRejected(i) ==
    /\ i \in DOMAIN inflight
    /\ inflight' = RemoveAt(inflight, i)
    /\ lastOp' = <<"refreshDocuments", "failed">>
    /\ UNCHANGED hookVars
    /\ UNCHANGED <<pageVars, loadedIdentity, loginForm>>
    /\ UNCHANGED <<storageVars, filesQueue, user, serverDocs, docsOwner, view, adminVars>>
    /\ UNCHANGED prefVars
    /\ UNCHANGED analytics
    /\ UNCHANGED fetchLog

-----------------------------------------------------------------------------
(* The upload hook driving the store, and the backend it uploads to *)

Outcomes == {"complete", "error"}
Last(q) == q[Len(q)]
\* the backend lists one document per title
AddTitle(titles, n) ==
    IF \E k \in DOMAIN titles : titles[k] = n THEN titles ELSE Append(titles, n)
DistinctLists == {l \in DocLists : \A i, j \in DOMAIN l : l[i] = l[j] => i = j}

\* the hook queues upload `i` as an in-flight entry
StartUpload(i) ==
    /\ i \in DOMAIN uploads
    /\ uploads[i].phase = "idle"
    /\ uploads' = [uploads EXCEPT ![i].phase = "uploading"]
    /\ StoreSet(upsertFileItems(filesQueue, <<Item(i, uploads[i].name, "uploading")>>))
    /\ lastOp' = <<"upsertFileItems", "start">>
    /\ UNCHANGED <<sessionVars, lastUser, uploadVars, view, adminVars, backend,
                   pageVars, loadedIdentity, loginForm>>
    /\ UNCHANGED analytics
    /\ UNCHANGED fetchLog

\* uploadFile of upload `i` settles: the entry takes its final status, and a
\* completed upload is a document of the backend from then on
FinishUpload(i) ==
    /\ i \in DOMAIN uploads
    /\ uploads[i].phase = "uploading"
    /\ uploads' = [uploads EXCEPT ![i].phase = "done"]
    /\ StoreSet(upsertFileItems(filesQueue, <<Item(i, uploads[i].name, uploads[i].outcome)>>))
    /\ backend' = IF uploads[i].outcome = "complete"
                  THEN Append(backend, AddTitle(Last(backend), uploads[i].name))
                  ELSE backend
    /\ lastOp' = <<"upsertFileItems", "finish">>
    /\ UNCHANGED <<sessionVars, lastUser, uploadVars, view, adminVars,
                   pageVars, loadedIdentity, loginForm>>
    /\ UNCHANGED analytics
    /\ UNCHANGED fetchLog

\* a fetchDocuments answer carries a list the backend has held; answers may
\* overtake one another
RefreshAnswered(i) ==
    \E k \in DOMAIN backend : RefreshResolved(i, backend[k])

-----------------------------------------------------------------------------
(* uploadFile *)

TimedOutMsg ==
    <<"Upload timed out",
      ". The file may be too large or the connection is too slow. Please try again or use a smaller file.">>
UnreachablePhrase == <<"Unable to reach the assistant backend">>
\* the message for a TypeError names API_BASE_URL and the steps to verify
UnreachableAtMsg == UnreachablePhrase \o <<" at ", "API_BASE_URL", ". Please verify: ...">>
UnreachableMsg == UnreachablePhrase \o <<". Confirm it is running and reachable.">>
TooLargeMsg == <<"File is too large. Maximum size is 200MB.">>
AuthRequiredMsg == <<"Authentication required. Please login again.">>
InvalidFileMsg == <<"Invalid file. Please check the file format and try again.">>
UploadFailedMsg == <<"Upload failed.">>

\* a response body: empty, text that is not JSON, or JSON with its detail and
\* message fields ("" for a missing one)
Bodies ==
    {<<"empty">>, <<"text", "Bad Gateway">>}
        \cup {<<"json", d, m>> : d \in {"", "Duplicate document"}, m \in {"", "Rejected"}}
\* how the fetch of uploadFile ends: the abort timer fires first, fetch rejects
\* with a TypeError or with something else, or a response arrives
UploadOutcomes ==
    {[kind |-> k, status |-> 0, body |-> <<"empty">>] : k \in {"abort", "TypeError", "other"}}
        \cup {[kind |-> "response", status |-> st, body |-> b] :
                 st \in {200, 400, 401, 413, 500}, b \in Bodies}

\* parsed?.detail || fallback, with JSON.parse throwing for a body that is not JSON
detailOr(body, fallback) ==
    IF body[1] = "json" /\ body[2] # "" THEN <<body[2]>> ELSE fallback
\* the `else if (bodyText)` branch
bodyMessage(body) ==
    IF body[1] = "empty" THEN UploadFailedMsg
    ELSE IF body[1] = "text" THEN <<body[2]>>
    ELSE IF body[2] # "" THEN <<body[2]>>
    ELSE IF body[3] # "" THEN <<body[3]>>
    ELSE UploadFailedMsg

classifiesAllAsUnreachable(o) ==
    IF o.kind = "response" THEN bodyMessage(o.body) ELSE UnreachableMsg
\* the message of the error uploadFile throws
uploadErrorMessage(o) ==
    IF o.kind = "abort" THEN TimedOutMsg
    ELSE IF o.kind = "TypeError" THEN UnreachableAtMsg
    ELSE IF o.kind = "other" THEN UnreachableMsg
    ELSE IF o.status = 413 THEN detailOr(o.body, TooLargeMsg)
    ELSE IF o.status = 401 THEN AuthRequiredMsg
    ELSE IF o.status = 400 THEN detailOr(o.body, InvalidFileMsg)
    ELSE bodyMessage(o.body)

\* the pages of the student application, from which files are uploaded
UploadViews == {"Dashboard", "Upload"}

\* uploadFile up to its await: the token is read and the request sent
UploadFile ==
    /\ view \in UploadViews
    /\ Idle("uploadFile")
    /\ calls' = calls \cup {Call("uploadFile", "request", token)}
    /\ lastOp' = <<"uploadFile">>
    /\ UNCHANGED <<storageVars, filesQueue, uploadVars, view, adminVars, hookVars,
                   page, uploadResult, loadedIdentity, loginForm>>
    /\ UNCHANGED prefVars
    /\ UNCHANGED analytics
    /\ UNCHANGED fetchLog

\* uploadFile after its await: the promise resolves or rejects
UploadSettled(c, o) ==
    /\ c \in calls
    /\ c.api = "uploadFile"
    /\ Authorized(c, o.kind = "response" /\ o.status \in 200..299)
    /\ calls' = calls \ {c}
    /\ uploadResult' = IF o.kind = "response" /\ o.status \in 200..299
                       THEN <<"resolved">>
                       ELSE <<"rejected", uploadErrorMessage(o)>>
    /\ lastOp' = <<"uploadFile", o.kind>>
    /\ UNCHANGED <<storageVars, filesQueue, uploadVars, view, adminVars, hookVars,
                   page, loadedIdentity, loginForm>>
    /\ UNCHANGED prefVars
    /\ UNCHANGED analytics
    /\ UNCHANGED fetchLog

-----------------------------------------------------------------------------
(* AnalyticsPage *)

Scopes == {"session", "overall", "document", "recent"}
\* a || b on strings, "" the empty or missing one
OrElse(a, b) == IF a # "" THEN a ELSE b
\* searchParams.get('scope') || 'session'
scopeOf(params) == OrElse(params.scope, "session")
\* options?.latestSessionId, options?.sessions[0]?.sessionId, options?.sources[0]?.value
latestSessionId(options) == IF options = Null THEN "" ELSE options[1].latestSessionId
firstSession(options) ==
    IF options = Null \/ options[1].sessions = <<>> THEN "" ELSE options[1].sessions[1]
firstSource(options) ==
    IF options = Null \/ options[1].sources = <<>> THEN "" ELSE options[1].sources[1]

urlAlwaysCarriesSession(scope, selectedSession, selectedSource, options, tok) ==
    <<<<"scope", scope>>, <<"sessionId", selectedSession>>>>
        \o (IF selectedSource # "" THEN <<<<"source", selectedSource>>>> ELSE <<>>)
        \o (IF ~Falsy(tok) THEN <<<<"token", tok>>>> ELSE <<>>)
\* the query of analyticsUrl: the URLSearchParams entries in the order they are set
analyticsUrl(scope, selectedSession, selectedSource, options, tok) ==
    <<<<"scope", scope>>>>
        \o (IF scope \in {"session", "recent"}
            THEN (IF OrElse(selectedSession, latestSessionId(options)) # ""
                  THEN <<<<"sessionId", OrElse(selectedSession, latestSessionId(options))>>>>
                  ELSE <<>>)
            ELSE IF scope = "document" /\ selectedSource # ""
            THEN <<<<"source", selectedSource>>>>
            ELSE <<>>)
        \o (IF ~Falsy(tok) THEN <<<<"token", tok>>>> ELSE <<>>)

\* the page as rendered from its search params, options and token
Rendered(params, options, tok) ==
    [params |-> params, options |-> options, token |-> tok,
     url |-> analyticsUrl(scopeOf(params), params.sessionId, params.source, options, tok)]
NoParams == [scope |-> "", sessionId |-> "", source |-> ""]
AnalyticsInit == Rendered(NoParams, Null, Null)

\* the search params the [options, scope, ...] effect replaces the current ones with
fallbackParams(params, options) ==
    IF options = Null THEN params
    ELSE IF scopeOf(params) = "session" /\ params.sessionId = ""
              /\ OrElse(latestSessionId(options), firstSession(options)) # ""
    THEN [scope |-> "session",
          sessionId |-> OrElse(latestSessionId(options), firstSession(options)),
          source |-> ""]
    ELSE IF scopeOf(params) = "document" /\ params.source = "" /\ firstSource(options) # ""
    THEN [scope |-> "document", sessionId |-> "", source |-> firstSource(options)]
    ELSE params

\* the search params handleScopeChange sets
scopeChanged(params, options, nextScope) ==
    IF nextScope \in {"session", "recent"}
    THEN [scope |-> nextScope,
          sessionId |-> OrElse(params.sessionId,
                               OrElse(latestSessionId(options), firstSession(options))),
          source |-> ""]
    ELSE IF nextScope = "document"
    THEN [scope |-> nextScope, sessionId |-> "",
          source |-> OrElse(params.source, firstSource(options))]
    ELSE [scope |-> nextScope, sessionId |-> "", source |-> ""]

AnalyticsStep(params, options, op) ==
    /\ view = "Analytics"
    /\ analytics' = Rendered(params, options, analytics.token)
    /\ lastOp' = <<op>>
    /\ UNCHANGED <<storageVars, filesQueue, uploadVars, view, adminVars, hookVars,
                   pageVars, loadedIdentity, loginForm, prefVars>>
    /\ UNCHANGED fetchLog

\* fetchAnalyticsOptions resolves: setOptions(data)
OptionsLoaded(data) ==
    /\ analytics.options = Null
    /\ AnalyticsStep(analytics.params, <<data>>, "setOptions")
\* the effect that fills in a missing session or source from the options
FallbackEffect ==
    /\ fallbackParams(analytics.params, analytics.options) # analytics.params
    /\ AnalyticsStep(fallbackParams(analytics.params, analytics.options),
                     analytics.options, "fallback")
HandleScopeChange(nextScope) ==
    AnalyticsStep(scopeChanged(analytics.params, analytics.options, nextScope),
                  analytics.options, "handleScopeChange")
HandleSessionChange(value) ==
    AnalyticsStep([analytics.params EXCEPT !.sessionId = value], analytics.options,
                  "handleSessionChange")
HandleSourceChange(value) ==
    AnalyticsStep([analytics.params EXCEPT !.source = value], analytics.options,
                  "handleSourceChange")

-----------------------------------------------------------------------------
(* Specifications *)

\* a fresh browser profile showing the student login form
Init ==
    /\ token = Null
    /\ student = Null
    /\ admin = Null
    /\ lastUser = Null
    /\ persisted = <<>>
    /\ filesQueue = <<>>
    /\ user = Null
    /\ serverDocs = <<>>
    /\ docsOwner = Null
    /\ inflight = <<>>
    /\ view = "Login"
    /\ usersFetch = {}
    /\ logoutTimer = 0
    /\ uploads = <<>>
    /\ backend = <<<<>>>>
    /\ page = PageInit
    /\ calls = {}
    /\ uploadResult = Null
    /\ loadedIdentity = Null
    /\ loginForm = FormInit
    /\ appState = AppInit
    /\ prefsBlob = Null
    /\ fetchLog = FetchLogInit
    /\ analytics = AnalyticsInit
    /\ lastOp = <<"init">>

\* student_a has logged in and opened the upload page, whose [user] effect has
\* called refreshDocuments
InitUpload ==
    /\ token = AccessToken("student_a")
    /\ student = StudentBlob("student_a")
    /\ admin = Null
    /\ lastUser = StudentBlob("student_a")
    /\ persisted = <<>>
    /\ filesQueue = <<>>
    /\ user = StudentBlob("student_a")
    /\ serverDocs = <<>>
    /\ docsOwner = Null
    /\ inflight = <<StudentBlob("student_a")>>
    /\ view = "Upload"
    /\ usersFetch = {}
    /\ logoutTimer = 0
    /\ uploads = <<>>
    /\ backend = <<<<>>>>
    /\ page = PageInit
    /\ calls = {}
    /\ uploadResult = Null
    /\ loadedIdentity = StudentBlob("student_a")
    /\ loginForm = FormInit
    /\ appState = AppInit
    /\ prefsBlob = Null
    /\ fetchLog = FetchLogInit
    /\ analytics = AnalyticsInit
    /\ lastOp = <<"mount", "Upload">>

\* the session keys, the login forms, the logout handlers and the admin views
SessionNext ==
    \/ \E v \in LoginViews : Navigate(v)
    \/ \E v \in AdminViews : OpenAdminView(v)
    \/ \E t \in usersFetch, resp \in UsersResponses : FetchUsersResponse(t, resp)
    \/ ForcedLogout
    \/ \E u \in Students : LoginStudent(u)
    \/ SubmitLogin
    \/ \E msg \in LoginErrors : LoginStudentFailed(msg)
    \/ LoginAdmin
    \/ \E msg \in LoginErrors : LoginAdminFailed(msg)
    \/ AdminLogout
    \/ SignOut
    \/ LogoutInOtherTab
    \/ Reload

SpecSession == Init /\ [][SessionNext]_vars

\* the items the store specification queues: every id, one display name, and
\* the statuses the code tells apart ('pending' is handled as 'uploading' is)
StoreItems == {Item(i, "x", s) : i \in Ids, s \in {"uploading", "complete", "error"}}
StoreBatches == SeqsUpTo(StoreItems, 1)

\* the app store with its persisted queue across logins, logouts and page loads;
\* one refreshDocuments call at a time (overlapping calls are SpecTenant's)
StoreNext ==
    \/ \E items \in StoreBatches : SetFilesQueue(items)
    \/ \E items \in StoreBatches : UpsertFileItems(items)
    \/ \E id \in Ids : RemoveFileItem(id)
    \/ ClearCompletedFiles
    \/ Reload
    \/ \E v \in LoginViews : Navigate(v)
    \/ SubmitLogin
    \/ \E u \in Students : LoginStudent(u)
    \/ LoginAdmin
    \/ AdminLogout
    \/ SignOut
    \/ inflight = <<>> /\ ImportComplete
    \/ \E titles \in {<<>>, <<"x">>} : RefreshResolved(1, titles)

SpecStore == Init /\ [][StoreNext]_vars

\* the upload page while the logged-in user changes under it
TenantNext ==
    \/ \E u \in Users \cup {Null} : AuthUserChanged(u)
    \/ ImportComplete
    \/ \E i \in 1..MaxInflight, titles \in DocLists : RefreshResolved(i, titles)
    \/ \E i \in 1..MaxInflight : RefreshRejected(i)

SpecTenant == InitUpload /\ [][TenantNext]_vars

\* the items the merge specification queues: two display names, two statuses
MergeItems == {Item(i, n, s) : i \in Ids, n \in Names, s \in {"uploading", "complete"}}
MergeBatches == SeqsUpTo(MergeItems, 1)

\* the upload page of one user: the local queue against the server's list
MergeNext ==
    \/ \E items \in MergeBatches : SetFilesQueue(items)
    \/ \E items \in MergeBatches : UpsertFileItems(items)
    \/ \E id \in Ids : RemoveFileItem(id)
    \/ ClearCompletedFiles
    \/ ImportComplete
    \/ \E i \in 1..MaxInflight, titles \in DocLists : RefreshResolved(i, titles)

SpecMerge == InitUpload /\ [][MergeNext]_vars

\* the upload page with the uploads of the hook still to start: their names
\* and outcomes, and the documents the backend already holds, are the inputs
InitRace ==
    /\ token = AccessToken("student_a")
    /\ student = StudentBlob("student_a")
    /\ admin = Null
    /\ lastUser = StudentBlob("student_a")
    /\ persisted = <<>>
    /\ filesQueue = <<>>
    /\ user = StudentBlob("student_a")
    /\ serverDocs = <<>>
    /\ docsOwner = Null
    /\ inflight = <<StudentBlob("student_a")>>
    /\ view = "Upload"
    /\ usersFetch = {}
    /\ logoutTimer = 0
    /\ uploads \in [Ids -> [name : Names, outcome : Outcomes, phase : {"idle"}]]
    /\ \E base \in DistinctLists : backend = <<base>>
    /\ page = PageInit
    /\ calls = {}
    /\ uploadResult = Null
    /\ loadedIdentity = StudentBlob("student_a")
    /\ loginForm = FormInit
    /\ appState = AppInit
    /\ prefsBlob = Null
    /\ fetchLog = FetchLogInit
    /\ analytics = AnalyticsInit
    /\ lastOp = <<"mount", "Upload">>

\* uploads started in quick succession racing one another and the refreshes
RaceNext ==
    \/ \E i \in Ids : StartUpload(i)
    \/ \E i \in Ids : FinishUpload(i)
    \/ ImportComplete
    \/ \E i \in 1..MaxInflight : RefreshAnswered(i)

SpecRace == InitRace /\ [][RaceNext]_vars

\* the admin has logged in and the dashboard's first fetchUsers has been answered
InitAdmin ==
    /\ token = AccessToken("ADMIN")
    /\ student = Null
    /\ admin = AdminBlob
    /\ lastUser = Null
    /\ persisted = <<>>
    /\ filesQueue = <<>>
    /\ user = Null
    /\ serverDocs = <<>>
    /\ docsOwner = Null
    /\ inflight = <<>>
    /\ view = "AdminDashboard"
    /\ usersFetch = {}
    /\ logoutTimer = 0
    /\ uploads = <<>>
    /\ backend = <<<<>>>>
    /\ page = [PageInit EXCEPT !.users = <<"u1">>]
    /\ calls = {}
    /\ uploadResult = Null
    /\ loadedIdentity = Null
    /\ loginForm = FormInit
    /\ appState = AppInit
    /\ prefsBlob = Null
    /\ fetchLog = FetchLogInit
    /\ analytics = AnalyticsInit
    /\ lastOp = <<"fetchUsers", "200">>

\* the answers to GET /admin/users that schedule nothing
PlainUsersResponses == {<<200, "OK">>, <<500, "Internal Server Error">>}

\* the add-user form against every answer to POST /admin/users
FormNext ==
    \/ ToggleAddForm
    \/ CancelAddForm
    \/ \E r \in RollNos : EditNewUser(r)
    \/ HandleAddUser
    \/ \E c \in calls, resp \in AddResponses : AddUserResponse(c, resp)
    \/ \E c \in calls, resp \in PlainUsersResponses : RefetchResponse(c, resp)

SpecForm == InitAdmin /\ [][FormNext]_vars

\* the requests of the handlers while logins and logouts change the token
RequestsNext ==
    \/ ToggleAddForm
    \/ HandleAddUser
    \/ \E c \in calls : AddUserResponse(c, OkResponse)
    \/ HandleDeleteUser(TRUE)
    \/ \E c \in calls : DeleteUserResponse(c, OkResponse)
    \/ \E c \in calls : RefetchResponse(c, <<200, "OK">>)
    \/ \E t \in usersFetch : FetchUsersResponse(t, <<200, "OK">>)
    \/ AdminLogout
    \/ LogoutInOtherTab
    \/ \E v \in LoginViews : Navigate(v)
    \/ SubmitLogin
    \/ LoginAdmin
    \/ LoginStudent("student_a")
    \/ UploadFile
    \/ \E c \in calls :
          UploadSettled(c, [kind |-> "response", status |-> 200, body |-> <<"empty">>])

SpecRequests == InitAdmin /\ [][RequestsNext]_vars

\* the answers to a mutation: accepted, refused with a detail, fetch rejected
MutationResponses ==
    {OkResponse, FetchRejected, Response(400, TRUE, <<"string", "Roll number already registered">>)}

\* add and delete on the dashboard while the session is changed under them
MutationsNext ==
    \/ ToggleAddForm
    \/ HandleAddUser
    \/ \E c \in calls, resp \in MutationResponses : AddUserResponse(c, resp)
    \/ \E confirmed \in BOOLEAN : HandleDeleteUser(confirmed)
    \/ \E c \in calls, resp \in MutationResponses : DeleteUserResponse(c, resp)
    \/ \E c \in calls, resp \in UsersResponses : RefetchResponse(c, resp)
    \/ \E t \in usersFetch, resp \in UsersResponses : FetchUsersResponse(t, resp)
    \/ ForcedLogout
    \/ AdminLogout
    \/ LogoutInOtherTab
    \/ SubmitLogin
    \/ LoginAdmin

SpecMutations == InitAdmin /\ [][MutationsNext]_vars

\* uploadFile against every way its fetch can end
UploadNext ==
    \/ UploadFile
    \/ \E c \in calls, o \in UploadOutcomes : UploadSettled(c, o)
    \/ LogoutInOtherTab
    \/ SignOut
    \/ \E v \in LoginViews : Navigate(v)
    \/ SubmitLogin
    \/ \E u \in Students : LoginStudent(u)

SpecUpload == InitUpload /\ [][UploadNext]_vars

\* the arguments the preference actions are called with
ProfileUpdates ==
    [name : {Null, <<" ">>, <<" ", "Ana", " ">>}, role : {Null, <<"Dean">>}]
PrefKeys == {"weeklyDigest", "sms"}
ChatBatches == {<<"hello">>}
QuizLists == {<<>>, <<"q1">>}
PrefsBatches == {<<>>, <<Item(1, "x", "complete")>>}

\* every field of the store across loads, a login and a sign out
PrefsNext ==
    \/ \E updates \in ProfileUpdates : UpdateProfile(updates)
    \/ \E key \in PrefKeys, value \in BOOLEAN : UpdateNotificationPref(key, value)
    \/ \E messages \in ChatBatches : AddChatMessages(messages)
    \/ \E questions \in QuizLists : SetQuizQuestions(questions)
    \/ \E items \in PrefsBatches : SetFilesQueue(items)
    \/ Reload
    \/ SubmitLogin
    \/ LoginStudent("student_a")
    \/ SignOut

SpecPrefs == Init /\ [][PrefsNext]_vars

\* an admin adds and deletes users while earlier refetches are still in flight;
\* every request is answered ok
ConvergeNext ==
    \/ ToggleAddForm
    \/ \E r \in RollNos : EditNewUser(r)
    \/ HandleAddUser
    \/ \E c \in calls : AddUserResponse(c, OkResponse)
    \/ HandleDeleteUser(TRUE)
    \/ \E c \in calls : DeleteUserResponse(c, OkResponse)
    \/ \E c \in calls : RefetchResponse(c, <<200, "OK">>)

SpecConverge == InitAdmin /\ [][ConvergeNext]_vars

\* upserts of up to two items, ids repeated or not, into queues built by upserts;
\* two statuses tell the items with one id apart
UpsertItems == {Item(i, "x", s) : i \in Ids, s \in {"uploading", "complete"}}
UpsertBatches == SeqsUpTo(UpsertItems, 2)
UpsertNext ==
    \/ \E items \in UpsertBatches : UpsertFileItems(items)
    \/ \E id \in Ids : RemoveFileItem(id)
    \/ ClearCompletedFiles
    \/ \E updates \in ProfileUpdates : UpdateProfile(updates)

SpecUpsert == Init /\ [][UpsertNext]_vars

\* the values of the analytics page's inputs
SessionIds == {"", "s1", "s2"}
SourceValues == {"", "d1"}
SearchParams == [scope : Scopes \cup {"", "other"}, sessionId : SessionIds, source : SourceValues]
AnalyticsOptions ==
    [latestSessionId : {"", "s2"}, sessions : {<<>>, <<"s1">>}, sources : {<<>>, <<"d1">>}]
AuthTokens == {Null, EmptyStr, AccessToken("student_a")}

\* student_a opens the analytics page under any query string
InitAnalytics ==
    /\ token = AccessToken("student_a")
    /\ student = StudentBlob("student_a")
    /\ admin = Null
    /\ lastUser = StudentBlob("student_a")
    /\ persisted = <<>>
    /\ filesQueue = <<>>
    /\ user = StudentBlob("student_a")
    /\ serverDocs = <<>>
    /\ docsOwner = Null
    /\ inflight = <<>>
    /\ view = "Analytics"
    /\ usersFetch = {}
    /\ logoutTimer = 0
    /\ uploads = <<>>
    /\ backend = <<<<>>>>
    /\ page = PageInit
    /\ calls = {}
    /\ uploadResult = Null
    /\ loadedIdentity = StudentBlob("student_a")
    /\ loginForm = FormInit
    /\ appState = AppInit
    /\ prefsBlob = Null
    /\ fetchLog = FetchLogInit
    /\ \E params \in SearchParams, tok \in AuthTokens :
          analytics = Rendered(params, Null, tok)
    /\ lastOp = <<"mount", "Analytics">>

AnalyticsNext ==
    \/ \E data \in AnalyticsOptions : OptionsLoaded(data)
    \/ FallbackEffect
    \/ \E nextScope \in Scopes : HandleScopeChange(nextScope)
    \/ \E value \in SessionIds : HandleSessionChange(value)
    \/ \E value \in SourceValues : HandleSourceChange(value)

SpecAnalytics == InitAnalytics /\ [][AnalyticsNext]_vars

-----------------------------------------------------------------------------
(* Claims *)

\* the handlers that end in a page load of this tab
LoadOps == {<<"load">>, <<"Login.handleSubmit", "ok">>, <<"signOut">>}
StoredIdentity == currentUser(student, admin)

\* C1: whenever a page load finds the identity blob (student, else admin)
\* different from sca-last-user, the upload queue in the store is empty after
\* rehydration, whatever the persisted queue held, and sca-last-user holds the
\* current identity blob ('' when no identity is stored).
C1_PurgeOnIdentitySwitch ==
    [][(lastOp' \in LoadOps /\ currentUser(student', admin') # lastUser)
        => /\ filesQueue' = <<>>
           /\ lastUser' = IF currentUser(student', admin') = Null
                            THEN EmptyStr
                            ELSE currentUser(student', admin')]_vars

\* a load has purged a non-empty persisted queue for a newly logged-in student
C1_Witness ==
    /\ lastOp \in LoadOps
    /\ student # Null
    /\ persisted # <<>>
    /\ filesQueue = <<>>
    /\ lastUser = StoredIdentity

\* C2: the documents shown on the upload page were fetched under the user who
\* is logged in now, whatever order the responses arrive in.
C2_TenantScopedDocs == (user \in Users /\ serverDocs # <<>>) => docsOwner = user

\* C3: at most one of the keys student and admin is present.
C3_IdentityMutex == student = Null \/ admin = Null

\* C4: the token key is present exactly when an identity key is present.
C4_TokenIffIdentity == (token # Null) <=> (student # Null \/ admin # Null)

\* the entries of q named n
CountName(q, n) == Cardinality({i \in DOMAIN q : q[i].name = n})
CombinedQueue == combinedQueue(filesQueue, serverDocs)
\* the positions of the server list whose name no local entry has
KeptDocs == {k \in DOMAIN serverDocs : serverDocs[k].name \notin ItemNames(filesQueue)}

\* C5: the combined queue is the local queue in its order followed by exactly
\* the server entries, in their order, whose name no local entry has; for
\* L = [x uploading], S = [x complete, y complete] it is [x uploading, y complete].
C5_MergeLocalWins ==
    /\ Len(CombinedQueue) = Len(filesQueue) + Cardinality(KeptDocs)
    /\ \A i \in DOMAIN filesQueue : CombinedQueue[i] = filesQueue[i]
    /\ \A k \in KeptDocs :
          CombinedQueue[Len(filesQueue) + Cardinality({j \in KeptDocs : j <= k})]
            = serverDocs[k]
    /\ (filesQueue = <<Item(1, "x", "uploading")>> /\ serverDocs = ServerItems(<<"x", "y">>))
          => CombinedQueue = <<Item(1, "x", "uploading"), Item(0 - 2, "y", "complete")>>

\* the example of C5: x is uploading locally, the server lists x and y
C5_Witness ==
    /\ filesQueue = <<Item(1, "x", "uploading")>>
    /\ serverDocs = ServerItems(<<"x", "y">>)
    /\ lastOp = <<"setServerDocs">>

\* C6 as stated: the combined queue has at most one entry for each display
\* name of the server list.
C6_AtMostOnePerServerName ==
    \A n \in ItemNames(serverDocs) : CountName(CombinedQueue, n) <= 1

\* C6 as amended: for each display name of the server list the combined queue
\* holds exactly the local entries of that name when there are any, and
\* otherwise exactly the server entries of that name; so it holds at most one
\* when the local queue and the server list each hold at most one.
C6_NoServerCopyOfLocalName ==
    \A n \in ItemNames(serverDocs) :
        /\ CountName(CombinedQueue, n) =
              IF CountName(filesQueue, n) > 0
              THEN CountName(filesQueue, n)
              ELSE CountName(serverDocs, n)
        /\ (CountName(filesQueue, n) <= 1 /\ CountName(serverDocs, n) <= 1)
              => CountName(CombinedQueue, n) <= 1

\* a name is in the local queue and in the server list at once
C6_Witness ==
    /\ lastOp = <<"setServerDocs">>
    /\ \E n \in ItemNames(serverDocs) : CountName(filesQueue, n) = 1
    /\ \E n \in ItemNames(serverDocs) : CountName(filesQueue, n) = 0

UploadNames == {uploads[i].name : i \in DOMAIN uploads}
AllSettled ==
    /\ \A i \in DOMAIN uploads : uploads[i].phase = "done"
    /\ inflight = <<>>
    /\ docsOwner = user
CountEntry(q, n, s) == Cardinality({i \in DOMAIN q : q[i].name = n /\ q[i].status = s})
\* the entries the inputs alone determine: one per upload with its outcome, and
\* one per document the backend held before whose name no upload carries
ExpectedCount(n, s) ==
    Cardinality({i \in DOMAIN uploads : uploads[i].name = n /\ uploads[i].outcome = s})
    + (IF /\ s = "complete"
          /\ n \notin UploadNames
          /\ \E k \in DOMAIN backend[1] : backend[1][k] = n
       THEN 1 ELSE 0)

ErrorIds(q) == {q[i].id : i \in {j \in DOMAIN q : q[j].status = "error"}}

C9_GuardTargets ==
    (lastOp[1] = "mount" /\ lastOp[2] \in AdminViews) =>
        IF student = Null /\ admin = Null THEN view \in LoginViews
        ELSE IF admin # AdminBlob THEN view = "Dashboard"
        ELSE view = lastOp[2]

\* C10: when the admin key stops denoting an admin while an admin view is
\* mounted, the view does not stay mounted.
C10_GuardReevaluated ==
    [][(view \in AdminViews /\ adminGuard(admin) = "stay" /\ adminGuard(admin') # "stay")
        => view' \notin AdminViews]_vars

\* C11: whenever AdminDashboard has been opened with no token in storage, the
\* view shown afterwards is a login form.
C11_NoTokenMeansLogin ==
    (lastOp = <<"mount", "AdminDashboard">> /\ Falsy(token)) => view \in LoginViews

\* C13: every 401 answer to GET /admin/users schedules the forced logout (the
\* timer whose callback removes token and admin and shows the admin login).
C13_Every401SchedulesLogout ==
    lastOp = <<"fetchUsers", "401">> => logoutTimer > 0

\* C18: when an application load has left the queue empty and the next step is
\* another load under the same identity, with no store action in between, the
\* queue is empty after that load too.
C18_PurgeIsDurable ==
    [][(/\ lastOp \in LoadOps
        /\ filesQueue = <<>>
        /\ lastOp' \in LoadOps
        /\ currentUser(student', admin') = loadedIdentity)
       => filesQueue' = <<>>]_vars

\* C19: an application load that finds the identity of the previous load keeps
\* the persisted queue as the store's queue and leaves sca-last-user as it was.
C19_NoPurgeWithoutChange ==
    [][(lastOp' \in LoadOps /\ currentUser(student', admin') = loadedIdentity)
       => (filesQueue' = persisted /\ lastUser' = lastUser)]_vars

LogoutOps == {<<"handleLogout">>, <<"signOut">>}
\* C20: after a logout handler of this tab (handleLogout of an admin view, the
\* sidebar's Sign Out) the keys token, student and admin are all absent and a
\* login form is shown.
C20_LogoutDestroysSession ==
    lastOp \in LogoutOps =>
        /\ token = Null
        /\ student = Null
        /\ admin = Null
        /\ view \in LoginViews

\* handleLogout has run on an admin view that was opened after a student's
\* login reloaded the application
C20_Witness ==
    /\ lastOp = <<"handleLogout">>
    /\ loadedIdentity \in Users
    /\ token = Null /\ student = Null /\ admin = Null
    /\ view = "AdminLogin"

\* C12: every request a step issues (fetchUsers, handleAddUser,
\* handleDeleteUser, uploadFile and the fetchUsers awaited after a mutation)
\* carries the token that is in storage when it is issued.
C12_RequestsUseCurrentToken ==
    [][/\ \A c \in calls' \ calls : c.token = token'
       /\ \A t \in usersFetch' \ usersFetch : t = token']_vars

\* an upload request carries the student's token although an admin had logged
\* in before in the same browser
C12_Witness ==
    /\ admin = AdminBlob
    /\ token = AccessToken("student_a")
    /\ Call("uploadFile", "request", AccessToken("student_a")) \in calls

RECURSIVE DottedLoc(_)
DottedLoc(loc) ==
    IF Len(loc) = 1 THEN loc ELSE <<loc[1], ".">> \o DottedLoc(Tail(loc))
RECURSIVE ExpectedValidation(_)
ExpectedValidation(d) ==
    IF Len(d) = 1
    THEN DottedLoc(d[1].loc) \o <<": ", d[1].msg>>
    ELSE DottedLoc(d[1].loc) \o <<": ", d[1].msg, ", ">> \o ExpectedValidation(Tail(d))
RollNoRequired == << [loc |-> <<"body", "roll_no">>, msg |-> "field required"] >>

\* C14: when POST /admin/users is answered 422 with an array `detail`, addError
\* becomes the entries, each as its loc elements joined by '.', then ': ', then
\* its msg, joined by ', ' in array order; for the detail
\* [{loc: [body, roll_no], msg: 'field required'}] it is
\* 'body.roll_no: field required'.
C14_ValidationAggregated ==
    [][\A c \in calls, d \in DetailArrays :
          AddUserResponse(c, Response(422, TRUE, <<"array", d>>))
          => /\ page'.addError = ExpectedValidation(d)
             /\ d = RollNoRequired
                => page'.addError = <<"body", ".", "roll_no", ": ", "field required">>]_vars

C14_Witness ==
    /\ lastOp = <<"handleAddUser", "failed">>
    /\ page.addError = <<"body", ".", "roll_no", ": ", "field required", ", ",
                         "body", ".", "password", ": ", "too short">>

Contains(msg, part) ==
    \E i \in 0..(Len(msg) - Len(part)) : SubSeq(msg, i + 1, i + Len(part)) = part

\* C15: when the abort timer fires first, uploadFile rejects with the timed-out
\* message, which neither is nor contains the unreachable-backend message; a
\* rejected fetch that is not an abort gives an unreachable-backend message and
\* never the timed-out one.
C15_TimeoutIsDistinct ==
    /\ lastOp = <<"uploadFile", "abort">> => uploadResult = <<"rejected", TimedOutMsg>>
    /\ ~Contains(TimedOutMsg, UnreachablePhrase)
    /\ TimedOutMsg \notin {UnreachableMsg, UnreachableAtMsg}
    /\ lastOp \in {<<"uploadFile", "TypeError">>, <<"uploadFile", "other">>}
       => /\ uploadResult[1] = "rejected"
          /\ uploadResult[2] # TimedOutMsg
          /\ ~Contains(uploadResult[2], <<"Upload timed out">>)
          /\ Contains(uploadResult[2], UnreachablePhrase)

C15_Witness ==
    /\ lastOp = <<"uploadFile", "abort">>
    /\ uploadResult = <<"rejected", TimedOutMsg>>
    /\ token = Null

MutationOkOps == {<<"handleAddUser", "ok">>, <<"handleDeleteUser", "ok">>}
MutationFailedOps ==
    {<<"handleAddUser", "failed">>, <<"handleDeleteUser", "failed">>,
     <<"handleDeleteUser", "declined">>}
Refetches(cs) == {c \in cs : c.phase = "refetch"}
\* a failed or declined mutation sends no GET /admin/users and keeps `users`
NoRefetchOnFailure ==
    lastOp' \in MutationFailedOps =>
        /\ Refetches(calls') \subseteq Refetches(calls)
        /\ usersFetch' = usersFetch
        /\ page'.users = page.users

\* C16: the step in which an add or a delete is answered successfully issues
\* the handler's GET /admin/users; a failed or declined mutation issues none
\* and leaves `users` as it was.
C16_MutationRefetches ==
    [][/\ lastOp' \in MutationOkOps => Refetches(calls') \ Refetches(calls) # {}
       /\ NoRefetchOnFailure]_vars

\* C16 as the code has it: the refetch is issued when a token is in storage as
\* the mutation's answer arrives; with none, fetchUsers sets its error instead.
C16_MutationRefetchesWithToken ==
    [][/\ lastOp' \in MutationOkOps =>
            IF Falsy(token)
            THEN Refetches(calls') \subseteq Refetches(calls) /\ page'.error = NoTokenMsg
            ELSE \E r \in Refetches(calls') \ Refetches(calls) : r.token = token
       /\ NoRefetchOnFailure]_vars

C16_Witness ==
    /\ lastOp = <<"handleDeleteUser", "ok">>
    /\ Call("deleteUser", "refetch", token) \in calls
    /\ Call("addUser", "request", token) \in calls

\* C17: a failed add leaves newUser and showAddForm as they were, puts a
\* non-empty message in addError, sets addLoading to false and does not
\* navigate; newUser is set to its defaults and the form closed by a
\* successful add, and newUser is otherwise changed by the inputs only.
C17_ErrorsKeepInput ==
    [][/\ \A c \in calls, resp \in AddResponses :
             (AddUserResponse(c, resp) /\ ~ResOk(resp))
             => /\ page'.newUser = page.newUser
                /\ page'.showAddForm = page.showAddForm
                /\ page'.addError = addErrorMessage(resp)
                /\ page'.addError # <<>>
                /\ ~page'.addLoading
                /\ view' = view
       /\ lastOp' = <<"handleAddUser", "ok">>
             => page'.newUser = DefaultNewUser /\ ~page'.showAddForm
       /\ page'.newUser # page.newUser
             => lastOp' \in {<<"handleAddUser", "ok">>, <<"setNewUser">>}]_vars

C17_Witness ==
    /\ lastOp = <<"handleAddUser", "failed">>
    /\ page.newUser = [roll_no |-> "r1"]
    /\ page.showAddForm
    /\ page.addError = <<"Failed to fetch">>
    /\ ~page.addLoading

-----------------------------------------------------------------------------
(* Login forms *)

SentLoginOps == {<<"Login.handleSubmit", "sent">>, <<"AdminLogin.handleSubmit", "sent">>}
FailedLoginOps == {<<"Login.handleSubmit", "failed">>, <<"AdminLogin.handleSubmit", "failed">>}
OkLoginOps == {<<"Login.handleSubmit", "ok">>, <<"AdminLogin.handleSubmit", "ok">>}

\* a step writes one of the session keys: the key's value changes to a value
WritesSessionKey ==
    \/ token' # token /\ token' # Null
    \/ student' # student /\ student' # Null
    \/ admin' # admin /\ admin' # Null

\* C21: a failed login creates no session: submitting a login form and the
\* failure of its request leave token, student and admin as they are and show
\* the same form; the failure sets a non-empty error message and puts loading
\* back to false; a session key is written only by the step that handles a
\* successful response
C21_FailedLoginCreatesNoSession ==
    [][ /\ lastOp' \in SentLoginOps \cup FailedLoginOps
            => UNCHANGED <<token, student, admin, view>>
        /\ lastOp' \in SentLoginOps => loginForm'.loading
        /\ lastOp' \in FailedLoginOps
            => loginForm.loading /\ ~loginForm'.loading /\ loginForm'.error # ""
        /\ WritesSessionKey => lastOp' \in OkLoginOps ]_vars

\* the student login has failed with the backend's message while an admin
\* session is stored
C21_Witness ==
    /\ lastOp = <<"Login.handleSubmit", "failed">>
    /\ loginForm = [error |-> "Invalid credentials", loading |-> FALSE]
    /\ token = AccessToken("ADMIN")
    /\ admin = AdminBlob

-----------------------------------------------------------------------------
(* Partial persistence *)

\* the step is an application load that finds the identity of the previous load
LoadWithSameIdentity ==
    lastOp' \in LoadOps /\ currentUser(student', admin') = loadedIdentity

\* profile and notificationPrefs come back, chatHistory and quizQuestions
\* restart empty
PrefsRoundTrip ==
    /\ appState'.profile = appState.profile
    /\ appState'.notificationPrefs = appState.notificationPrefs
    /\ appState'.chatHistory = <<>>
    /\ appState'.quizQuestions = <<>>

\* the blob holds profile and notificationPrefs (and the queue) and nothing else
BlobFields == prefsBlob # Null => DOMAIN prefsBlob[1] = {"profile", "notificationPrefs"}

\* C22: across an application load with unchanged identity, profile and
\* notificationPrefs have the values they had before it, filesQueue is the queue
\* written by the last store action, chatHistory and quizQuestions are empty;
\* the sca-ui-preferences blob holds only profile, notificationPrefs and
\* filesQueue.
C22_PartialRoundTrip ==
    [][ /\ BlobFields
        /\ LoadWithSameIdentity => (PrefsRoundTrip /\ filesQueue' = persisted) ]_vars

-----------------------------------------------------------------------------
(* uploadFile: responses that are not ok *)

\* response.text() as tokens: nothing, the text, or the JSON text of the object
bodyText(body) ==
    IF body[1] = "empty" THEN <<>>
    ELSE IF body[1] = "text" THEN <<body[2]>>
    ELSE <<"{", body[2], body[3], "}">>

\* detail, else message, else the raw body text, else 'Upload failed.'
DetailMessageTextElse(body) ==
    IF body[1] = "json" /\ body[2] # "" THEN <<body[2]>>
    ELSE IF body[1] = "json" /\ body[3] # "" THEN <<body[3]>>
    ELSE IF bodyText(body) # <<>> THEN bodyText(body)
    ELSE UploadFailedMsg

NotOk(o) == o.kind = "response" /\ o.status \notin 200..299

\* the message by status: 413, 401, 400, any other
MessageByStatus(o) ==
    IF o.status = 413
    THEN (IF o.body[1] = "json" /\ o.body[2] # "" THEN <<o.body[2]>> ELSE TooLargeMsg)
    ELSE IF o.status = 401 THEN AuthRequiredMsg
    ELSE IF o.status = 400
    THEN (IF o.body[1] = "json" /\ o.body[2] # "" THEN <<o.body[2]>> ELSE InvalidFileMsg)
    ELSE DetailMessageTextElse(o.body)

\* C23: for every response that is not 2xx uploadFile rejects, and the message
\* of the error is chosen by status: 413 gives the body's detail, else the 200MB
\* message; 401 the authentication message; 400 the detail, else the
\* invalid-file message; any other status the detail, else the message field,
\* else the raw body text, else 'Upload failed.'.
C23_FailuresClassifiedByStatus ==
    [][\A c \in calls, o \in UploadOutcomes :
          (UploadSettled(c, o) /\ NotOk(o))
              => uploadResult' = <<"rejected", MessageByStatus(o)>>]_vars

-----------------------------------------------------------------------------
(* Analytics URL *)

Carries(url, key) == \E i \in DOMAIN url : url[i][1] = key
ValueOf(url, key) == url[CHOOSE i \in DOMAIN url : url[i][1] = key][2]
\* the session id the URL is to carry: the selected one, else the latest
AvailableSession ==
    OrElse(analytics.params.sessionId, latestSessionId(analytics.options))

\* C24: the analytics URL always carries scope; it carries sessionId exactly
\* when scope is session or recent and a session id (the selected one, else the
\* latest) is available; it carries source exactly when scope is document and a
\* source is selected; it carries token exactly when a token is present; it
\* never carries both sessionId and source.
C24_UrlFollowsScope ==
    /\ Carries(analytics.url, "scope")
    /\ ValueOf(analytics.url, "scope") = scopeOf(analytics.params)
    /\ Carries(analytics.url, "sessionId")
        <=> (scopeOf(analytics.params) \in {"session", "recent"} /\ AvailableSession # "")
    /\ Carries(analytics.url, "sessionId")
        => ValueOf(analytics.url, "sessionId") = AvailableSession
    /\ Carries(analytics.url, "source")
        <=> (scopeOf(analytics.params) = "document" /\ analytics.params.source # "")
    /\ Carries(analytics.url, "source")
        => ValueOf(analytics.url, "source") = analytics.params.source
    /\ Carries(analytics.url, "token") <=> ~Falsy(analytics.token)
    /\ ~(Carries(analytics.url, "sessionId") /\ Carries(analytics.url, "source"))

\* the search params hold a session and a source, the scope is document and a
\* token is present: the URL carries scope, source and token only
C24_Witness ==
    /\ lastOp = <<"handleSourceChange">>
    /\ analytics.params = [scope |-> "document", sessionId |-> "s1", source |-> "d1"]
    /\ analytics.url = <<<<"scope", "document">>, <<"source", "d1">>,
                         <<"token", AccessToken("student_a")>>>>

-----------------------------------------------------------------------------
(* Admin admission *)

\* C25: whenever the admin-access guard admits the viewer (the admin key holds
\* a blob with is_admin true), the stored token is the token of an admin
\* login, never the token of a student login.
C25_AdmissionMatchesToken ==
    adminGuard(admin) = "stay" => token = AccessToken("ADMIN")

\* C26: when AdminDashboard mounts (opened, or loaded again) and the
\* admin-access guard redirects the viewer, no GET /admin/users request is sent.
C26_NoRequestFromRejected ==
    [][(/\ lastOp' \in {<<"mount", "AdminDashboard">>, <<"load">>}
        /\ adminGuard(admin') # "stay")
       => usersFetch' \subseteq usersFetch]_vars

-----------------------------------------------------------------------------
(* Overlapping fetchUsers calls *)

\* C27: once every fetchUsers call issued by the dashboard's handlers has been
\* answered, the displayed users list is the list answered to the call that
\* was issued last, whatever order the answers arrived in.
C27_NewestFetchWins ==
    (/\ view = "AdminDashboard"
     /\ usersFetch = {}
     /\ fetchLog.order = <<>>
     /\ fetchLog.newest # Null)
    => page.users = fetchLog.newest[1]

-----------------------------------------------------------------------------
(* Authorization header *)

\* C28: a request sent by handleAddUser, handleDeleteUser, uploadFile or an
\* awaited fetchUsers while no token is stored carries no Authorization header,
\* and a header that is sent is 'Bearer ' followed by the stored token.
C28_NoHeaderWithoutToken ==
    [][\A c \in calls' \ calls :
          /\ token' = Null => c.header = Null
          /\ c.header # Null => (token' # Null /\ c.header = <<"Bearer ", token'>>)]_vars

-----------------------------------------------------------------------------
(* upsertFileItems *)

Occurs(items, id) == \E i \in DOMAIN items : items[i].id = id
\* the last item of `items` with this id
LastWith(items, id) ==
    items[CHOOSE i \in DOMAIN items :
            /\ items[i].id = id
            /\ \A j \in DOMAIN items : items[j].id = id => j <= i]
\* the ids of `items` that `queue` does not hold, each once, in argument order
RECURSIVE NewIds(_, _)
NewIds(items, seen) ==
    IF items = <<>> THEN <<>>
    ELSE IF Head(items).id \in seen THEN NewIds(Tail(items), seen)
    ELSE <<Head(items).id>> \o NewIds(Tail(items), seen \cup {Head(items).id})
DistinctIds(queue) ==
    \A i, j \in DOMAIN queue : queue[i].id = queue[j].id => i = j
QueueIds(queue) == {queue[i].id : i \in DOMAIN queue}

\* `result` is the upsert of `items` into `queue`
IsUpsert(queue, items, result) ==
    LET new == NewIds(items, QueueIds(queue)) IN
    /\ Len(result) = Len(queue) + Len(new)
    /\ \A i \in DOMAIN queue :
          result[i] = IF Occurs(items, queue[i].id)
                      THEN LastWith(items, queue[i].id)
                      ELSE queue[i]
    /\ \A k \in DOMAIN new : result[Len(queue) + k] = LastWith(items, new[k])
    /\ DistinctIds(result)
    /\ upsertFileItems(result, items) = result

NotComplete(q) == SelectSeq(q, LAMBDA item : item.status # "complete")

\* C30: once clearCompletedFiles has run, the combined queue of the upload page
\* holds no entry with status 'complete', so hasCompleted is false and 'Clear
\* completed' is not offered, and the store's queue is its former entries of the
\* other statuses in their order.
C30_ClearCompletedClearsShown ==
    [][ClearCompletedFiles
          => /\ \A i \in DOMAIN combinedQueue(filesQueue', serverDocs') :
                    combinedQueue(filesQueue', serverDocs')[i].status # "complete"
             /\ ~hasCompleted(filesQueue', serverDocs')
             /\ filesQueue' = NotComplete(filesQueue)]_vars

\* the part of C30 about the store's own queue: clearCompletedFiles leaves it
\* without a 'complete' entry and keeps the others in their order
C30_StoreQueueCleared ==
    [][ClearCompletedFiles
          => /\ \A i \in DOMAIN filesQueue' : filesQueue'[i].status # "complete"
             /\ filesQueue' = NotComplete(filesQueue)
             /\ serverDocs' = serverDocs]_vars

====
